---- MODULE Spec2Model ----
(***************************************************************************)
(* Bitcoin anchoring service: the replicated anchoring schema (LECT lists, *)
(* LECT index, signature lists, known addresses), the two on-chain message *)
(* kinds and their execute handlers, and the per-commit handler of a       *)
(* validator node.                                                         *)
(***************************************************************************)
EXTENDS Integers, Sequences, FiniteSets, TLC

VARIABLES
    lects,            \* validator id -> list of Bitcoin transactions (schema.lects)
    lect_indexes,     \* validator id -> map txid -> position (schema.lect_indexes)
    signatures,       \* map txid -> list of Signature messages (schema.signatures)
    known_addresses,  \* set of known anchoring addresses (schema.known_addresses)
    genesis_done,     \* whether handle_genesis_block has run
    height,           \* state.height() of the next run of the commit handler
    proposal_tx,      \* node -> <<>> or <<tx>>: AnchoringState.proposal_tx
    mempool,          \* messages handed to add_transaction and not yet committed
    sent,             \* transactions given to send_raw_transaction
    committed,        \* number of messages executed so far
    last,             \* the handler that ran last and the message it was given
    panicked          \* <<>> or <<place>>: the place where the process panicked

vars == <<lects, lect_indexes, signatures, known_addresses, genesis_done,
          height, proposal_tx, mempool, sent, committed, last, panicked>>

node_vars == <<height, proposal_tx, mempool, sent>>

store == <<lects, lect_indexes, signatures, known_addresses>>

(***************************************************************************)
(* Configuration of the sandbox: four validators, threshold three.         *)
(***************************************************************************)
NumValidators == 4

NonexistentValidator == 1000

Validators == 0 .. (NumValidators - 1)

\* Every u32 names a table prefix; the model keeps one id outside [0, N).
ValidatorIds == Validators \cup {NonexistentValidator}

MultisigAddr == "multisig"

UnknownAddr == "unknown"

ZeroHash == 0

\* Hash of the committed block at height h (never the zero hash).
BlockHash(h) == h + 1

(***************************************************************************)
(* Bounds of the model.                                                    *)
(***************************************************************************)
MaxCommitted == 3

MaxInjected == 2

MaxHeight == 1

MaxNodeHeight == 3

MaxCheckLectFrequency == 2
MaxOwnCommitted == 5
MaxOwnHeight == 2

\* Configuration values the model fixes (any positive value is a legal config).
AnchoringFrequency == 2

\* A longer anchoring interval, long enough to hold a proposal, its finalize
\* and one more commit.
LongAnchoringFrequency == 3

CheckLectFrequency == 1

(***************************************************************************)
(* Bitcoin primitives.  A transaction is its inputs (the txids it spends), *)
(* the address of output 0, the payload (height, block hash) of the data   *)
(* output (empty for a funding transaction) and the script_sig of input 0. *)
(***************************************************************************)
Tx(input, addr, payload, script_sig) ==
    [input |-> input, addr |-> addr, payload |-> payload, script_sig |-> script_sig]

\* The txid is the hash of the whole serialized transaction, script_sig included.
TxId(tx) == <<"txid", tx.input, tx.addr, tx.payload, tx.script_sig>>

\* What one input's signature commits to: the transaction without its script_sig.
SigHash(tx, input, redeem_script) ==
    <<"sighash", tx.input, tx.addr, tx.payload, input, redeem_script>>

\* A Bitcoin signature made with the private key of `key`; `nonce` makes
\* byte-distinct signatures of one message.
BtcSign(tx, input, redeem_script, key, nonce) ==
    [key |-> key, sighash |-> SigHash(tx, input, redeem_script), nonce |-> nonce]

\* Redeem script and address derived from the validators' Bitcoin keys.
RedeemScript == <<"redeem", Validators>>

\* cfg.validators[i]: the Bitcoin public key of validator i.
BtcKey(i) == i

\* tx.verify(redeem_script, input, pub_key, signature)
Verify(tx, redeem_script, input, pub_key, signature) ==
    /\ signature.key = pub_key
    /\ signature.sighash = SigHash(tx, input, redeem_script)

FundingTx == Tx(<<>>, MultisigAddr, <<>>, <<>>)

\* A funding-style transaction paying a multisig address nobody configured.
ForeignFundingTx == Tx(<<>>, UnknownAddr, <<>>, <<>>)

\* TransactionBuilder::with_prev_tx(prev, 0).payload(h, hash).send_to(addr)
AnchoringTx(prev, addr, h, hash) == Tx(<<TxId(prev)>>, addr, <<h, hash>>, <<>>)

PayloadHeight(tx) == tx.payload[1]

PayloadHash(tx) == tx.payload[2]

(***************************************************************************)
(* Maps of the storage: a map is a function whose domain is the key set.   *)
(***************************************************************************)
MapGet(map, key) == IF key \in DOMAIN map THEN <<map[key]>> ELSE <<>>

MapPut(map, key, value) ==
    [k \in (DOMAIN map) \cup {key} |-> IF k = key THEN value ELSE map[k]]

EmptyMap == [k \in {} |-> 0]

\* schema.signatures(txid).values(): an absent list is empty.
SignaturesOf(sigs, txid) == IF txid \in DOMAIN sigs THEN sigs[txid] ELSE <<>>

(***************************************************************************)
(* Anchoring schema.  `st` is the replicated store: the four tables.       *)
(* Positions in a list are counted from 0, as in the storage: the entry at *)
(* position i is element i + 1 of the sequence.                            *)
(***************************************************************************)
Store ==
    [lects |-> lects, lect_indexes |-> lect_indexes,
     signatures |-> signatures, known_addresses |-> known_addresses]

SetStore(st) ==
    /\ lects' = st.lects
    /\ lect_indexes' = st.lect_indexes
    /\ signatures' = st.signatures
    /\ known_addresses' = st.known_addresses

\* add_lect that writes the list anew instead of appending to it.
add_lect_truncating(st, validator, tx) ==
    [st EXCEPT !.lects[validator] = <<tx>>,
               !.lect_indexes[validator] = MapPut(@, TxId(tx), 0)]

\* AnchoringSchema::add_lect
add_lect(st, validator, tx) ==
    LET idx == Len(st.lects[validator])
        txid == TxId(tx)
    IN  [st EXCEPT !.lects[validator] = Append(@, tx),
                   !.lect_indexes[validator] = MapPut(@, txid, idx)]

\* AnchoringSchema::lect: the last entry, <<>> when the list is empty.
lect(st, validator) ==
    IF Len(st.lects[validator]) = 0 THEN <<>>
    ELSE <<st.lects[validator][Len(st.lects[validator])]>>

\* AnchoringSchema::find_lect_position
find_lect_position(st, validator, txid) == MapGet(st.lect_indexes[validator], txid)

\* AnchoringSchema::add_known_address
add_known_address(st, addr) == [st EXCEPT !.known_addresses = @ \cup {addr}]

\* AnchoringSchema::is_address_known
is_address_known(st, addr) == addr \in st.known_addresses

\* The loop of create_genesis_config: add_lect(idx, funding_tx) for idx < n.
RECURSIVE SeedLects(_, _, _)
SeedLects(st, n, funding_tx) ==
    IF n = 0 THEN st
    ELSE add_lect(SeedLects(st, n - 1, funding_tx), n - 1, funding_tx)

\* create_genesis_config without the loop that seeds the LECT lists.
create_genesis_config_unseeded(st) ==
    add_known_address(st, MultisigAddr)

\* create_genesis_config whose loop stops one validator short.
create_genesis_config_short(st) ==
    SeedLects(add_known_address(st, MultisigAddr), NumValidators - 1, FundingTx)

\* AnchoringSchema::create_genesis_config
create_genesis_config(st) ==
    SeedLects(add_known_address(st, MultisigAddr), NumValidators, FundingTx)

\* ListTable::append on signatures(txid)
AppendSignature(st, txid, msg) ==
    [st EXCEPT !.signatures = MapPut(@, txid, Append(SignaturesOf(@, txid), msg))]

(***************************************************************************)
(* The two message kinds.  `from` is the validator whose consensus key     *)
(* signed the message (Transaction::verify accepts only such messages).    *)
(***************************************************************************)
MsgAnchoringSignature(from, validator, tx, input, signature) ==
    [type |-> "Signature", from |-> from, validator |-> validator, tx |-> tx,
     input |-> input, signature |-> signature]

MsgAnchoringUpdateLatest(from, validator, tx, lect_count) ==
    [type |-> "UpdateLatest", from |-> from, validator |-> validator, tx |-> tx,
     lect_count |-> lect_count]

\* MsgAnchoringSignature::execute panics on cfg.validators[validator] when the
\* index is out of range.
SignatureExecutePanics(msg) == msg.validator \notin Validators

\* MsgAnchoringSignature::execute with the test of the signature inverted.
MsgAnchoringSignatureExecute_inverted(st, msg) ==
    IF Verify(msg.tx, RedeemScript, msg.input, BtcKey(msg.validator), msg.signature)
    THEN st
    ELSE AppendSignature(st, TxId(msg.tx), msg)

\* MsgAnchoringSignature::execute that stores a signature only on a node that
\* holds a proposal for the signed transaction.
MsgAnchoringSignatureExecute_if_proposed(st, msg) ==
    IF \/ ~Verify(msg.tx, RedeemScript, msg.input, BtcKey(msg.validator), msg.signature)
       \/ proposal_tx[0] # <<msg.tx>>
    THEN st
    ELSE AppendSignature(st, TxId(msg.tx), msg)

\* MsgAnchoringSignature::execute, when it does not panic
MsgAnchoringSignatureExecute(st, msg) ==
    IF ~Verify(msg.tx, RedeemScript, msg.input, BtcKey(msg.validator), msg.signature)
    THEN st
    ELSE AppendSignature(st, TxId(msg.tx), msg)

\* MsgAnchoringUpdateLatest::execute comparing the count with the last position
\* instead of the length.
MsgAnchoringUpdateLatestExecute_last_position(st, msg) ==
    IF Len(st.lects[msg.validator]) - 1 = msg.lect_count
    THEN add_lect(st, msg.validator, msg.tx)
    ELSE st

\* MsgAnchoringUpdateLatest::execute
MsgAnchoringUpdateLatestExecute(st, msg) ==
    IF Len(st.lects[msg.validator]) = msg.lect_count
    THEN add_lect(st, msg.validator, msg.tx)
    ELSE st

\* Transaction::execute for AnchoringTransaction (service.rs)
TransactionExecute(st, msg) ==
    IF msg.type = "Signature"
    THEN AppendSignature(st, TxId(msg.tx), msg)
    ELSE [st EXCEPT !.lects[msg.validator] = Append(@, msg.tx)]

(***************************************************************************)
(* Configuration and Bitcoin-side helpers used by the commit handler.      *)
(***************************************************************************)
\* AnchoringService::majority_count
majority_count == (NumValidators * 2) \div 3 + 1

\* AnchoringConfig::nearest_anchoring_height: the largest multiple of
\* anchoring_frequency that is <= height.
nearest_anchoring_height(h) == h - (h % AnchoringFrequency)

\* tx.payload().0: the anchored height of a LECT; a transaction without a
\* payload (the funding transaction) has anchored nothing yet.
AnchoredHeight(tx) == IF tx.payload = <<>> THEN -1 ELSE PayloadHeight(tx)

\* actual_payload that names the block of the current height.
actual_payload_current(h) == <<h, BlockHash(h)>>

\* AnchoringService::actual_payload
actual_payload(h) ==
    <<nearest_anchoring_height(h), BlockHash(nearest_anchoring_height(h))>>

\* lect.proposal(client, from, to, fee, funding_txs, height, hash): spends
\* output 0 of the LECT and every given funding transaction.
Proposal(prev, funding_txs, payload) ==
    Tx(<<TxId(prev)>> \o [i \in 1 .. Len(funding_txs) |-> TxId(funding_txs[i])],
       MultisigAddr, payload, <<>>)

\* funding_tx.make_anchoring_tx(client, multisig, fee, height, hash)
make_anchoring_tx(funding_tx, payload) == Tx(<<TxId(funding_tx)>>, MultisigAddr, payload, <<>>)

\* proposal.finalize(client, multisig, signatures): the script_sig of input 0
\* is the given signature list.
Finalize(tx, sigs) == [tx EXCEPT !.script_sig = sigs]

\* AnchoringService::check_lect
check_lect(st, id) ==
    LET our_lect == lect(st, id)
        count == 1 + Cardinality({v \in Validators : lect(st, v) = our_lect})
    IN  IF our_lect = <<>> THEN [kind |-> "None", tx |-> <<>>]
        ELSE IF count >= majority_count THEN [kind |-> "Some", tx |-> our_lect]
        ELSE [kind |-> "Different", tx |-> <<>>]

(***************************************************************************)
(* The commit handler of one node.  `ns` is what one run of the handler    *)
(* has done so far: the local proposal, the messages handed to             *)
(* add_transaction, the RPC calls made, the transactions sent to Bitcoin   *)
(* and the place of a panic.  `rpc` is what the Bitcoin node answers in    *)
(* this run: the call that fails (or "none"), what find_lect finds, the    *)
(* state of the funding output and whether the finalized transaction is    *)
(* already known.  A Result is [ns, err].                                  *)
(***************************************************************************)
Ok(ns) == [ns |-> ns, err |-> FALSE]

Err(ns) == [ns |-> ns, err |-> TRUE]

Call(ns, name) == [ns EXCEPT !.calls = Append(@, name)]

\* state.add_transaction
add_transaction(ns, msg) == [ns EXCEPT !.queue = Append(@, msg)]

Panic(ns, place) == [ns EXCEPT !.panic = <<place>>]

\* The UpdateLatest a node builds for its own LECT list.
OwnUpdateLatest(st, id, tx) == MsgAnchoringUpdateLatest(id, id, tx, Len(st.lects[id]))

\* update_our_lect that enqueues whatever find_lect found, the node's own
\* LECT included.
update_our_lect_every_found(frequency, ns, st, id, h, rpc) ==
    IF h % frequency # 0 THEN Ok(ns)
    ELSE LET ns1 == Call(ns, "find_lect")
             found == rpc.find_lect
         IN  IF rpc.fail = "find_lect" THEN Err(ns1)
             ELSE IF found # <<>>
                  THEN Ok(add_transaction(ns1, OwnUpdateLatest(st, id, found[1])))
                  ELSE Ok(ns1)

\* AnchoringService::update_our_lect with cfg.check_lect_frequency = frequency
update_our_lect_every(frequency, ns, st, id, h, rpc) ==
    IF h % frequency # 0 THEN Ok(ns)
    ELSE LET ns1 == Call(ns, "find_lect")
             found == rpc.find_lect
             our_lect == lect(st, id)
         IN  IF rpc.fail = "find_lect" THEN Err(ns1)
             ELSE IF found # our_lect /\ found # <<>>
                  THEN Ok(add_transaction(ns1, OwnUpdateLatest(st, id, found[1])))
                  ELSE Ok(ns1)

\* AnchoringService::update_our_lect
update_our_lect(ns, st, id, h, rpc) ==
    update_our_lect_every(CheckLectFrequency, ns, st, id, h, rpc)

\* The entry of the call log for a list_unspent that answered: what it
\* reported about the funding output.
ListUnspentAnswer(rpc) ==
    IF rpc.funding = "confirmed" THEN "list_unspent: confirmed"
    ELSE IF rpc.funding = "unconfirmed" THEN "list_unspent: unconfirmed"
    ELSE "list_unspent: absent"

\* avaliable_funding_tx without the test of the confirmations.
avaliable_funding_tx_unconfirmed(ns, rpc) ==
    LET ns1 == Call(ns, IF rpc.fail = "list_unspent" THEN "list_unspent"
                        ELSE ListUnspentAnswer(rpc))
    IN  IF rpc.fail = "list_unspent"
        THEN [ns |-> ns1, err |-> TRUE, funding |-> <<>>]
        ELSE [ns |-> ns1, err |-> FALSE,
              funding |-> IF rpc.funding # "none" THEN <<FundingTx>> ELSE <<>>]

\* AnchoringService::avaliable_funding_tx: [ns, err, funding]
avaliable_funding_tx(ns, rpc) ==
    LET ns1 == Call(ns, IF rpc.fail = "list_unspent" THEN "list_unspent"
                        ELSE ListUnspentAnswer(rpc))
    IN  IF rpc.fail = "list_unspent"
        THEN [ns |-> ns1, err |-> TRUE, funding |-> <<>>]
        ELSE [ns |-> ns1, err |-> FALSE,
              funding |-> IF rpc.funding = "confirmed" THEN <<FundingTx>> ELSE <<>>]

\* sign_proposal_tx that keeps the proposal but never hands the Signature
\* message to add_transaction.
sign_proposal_tx_silent(ns, id, proposal, rpc) ==
    LET ns1 == Call(ns, "sign")
    IN  IF rpc.fail = "sign" THEN Err(ns1)
        ELSE Ok([ns1 EXCEPT !.proposal = <<proposal>>])

\* AnchoringService::sign_proposal_tx
sign_proposal_tx(ns, id, proposal, rpc) ==
    LET ns1 == Call(ns, "sign")
        signature == BtcSign(proposal, 0, RedeemScript, BtcKey(id), 1)
        sign_msg == MsgAnchoringSignature(id, id, proposal, 0, signature)
    IN  IF rpc.fail = "sign" THEN Err(ns1)
        ELSE Ok(add_transaction([ns1 EXCEPT !.proposal = <<proposal>>], sign_msg))

\* AnchoringService::create_proposal_tx
create_proposal_tx(ns, id, h, tip, rpc) ==
    LET af == avaliable_funding_tx(ns, rpc)
        ns1 == Call(af.ns, "proposal")
        proposal == Proposal(tip, af.funding, actual_payload(h))
    IN  IF af.err THEN Err(af.ns)
        ELSE IF rpc.fail = "proposal" THEN Err(ns1)
        ELSE sign_proposal_tx(ns1, id, proposal, rpc)

\* AnchoringService::create_first_proposal_tx
create_first_proposal_tx(ns, id, h, rpc) ==
    LET af == avaliable_funding_tx(ns, rpc)
        ns1 == Call(af.ns, "make_anchoring_tx")
    IN  IF af.err THEN Err(af.ns)
        ELSE IF af.funding = <<>> THEN Ok(Panic(af.ns, "Funding transaction is not suitable."))
        ELSE IF rpc.fail = "make_anchoring_tx" THEN Err(ns1)
        ELSE sign_proposal_tx(ns1, id, make_anchoring_tx(af.funding[1], actual_payload(h)), rpc)

\* try_create_proposal_tx that proposes on its own LECT whatever the other
\* validators hold.
try_create_proposal_tx_alone(ns, st, id, h, rpc) ==
    LET our_lect == lect(st, id)
    IN  IF our_lect = <<>> THEN create_first_proposal_tx(ns, id, h, rpc)
        ELSE IF nearest_anchoring_height(h) > AnchoredHeight(our_lect[1])
             THEN create_proposal_tx(ns, id, h, our_lect[1], rpc)
             ELSE Ok(ns)

\* try_create_proposal_tx that also proposes when the LECT already anchors the
\* nearest anchoring height.
try_create_proposal_tx_again(ns, st, id, h, rpc) ==
    LET kind == check_lect(st, id)
    IN  IF kind.kind = "Different" THEN Ok(ns)
        ELSE IF kind.kind = "None" THEN create_first_proposal_tx(ns, id, h, rpc)
        ELSE IF nearest_anchoring_height(h) >= AnchoredHeight(kind.tx[1])
             THEN create_proposal_tx(ns, id, h, kind.tx[1], rpc)
             ELSE Ok(ns)

\* AnchoringService::try_create_proposal_tx
try_create_proposal_tx(ns, st, id, h, rpc) ==
    LET kind == check_lect(st, id)
    IN  IF kind.kind = "Different" THEN Ok(ns)
        ELSE IF kind.kind = "None" THEN create_first_proposal_tx(ns, id, h, rpc)
        ELSE IF nearest_anchoring_height(h) > AnchoredHeight(kind.tx[1])
             THEN create_proposal_tx(ns, id, h, kind.tx[1], rpc)
             ELSE Ok(ns)

\* The loop `signatures[msg.validator() as usize] = Some(msg.signature())`:
\* the slot of validator v ends up holding the signature written last.
SignatureSlot(msgs, v) ==
    LET at == {i \in 1 .. Len(msgs) : msgs[i].validator = v}
    IN  IF at = {} THEN <<>>
        ELSE <<msgs[CHOOSE i \in at : \A j \in at : j <= i].signature>>

\* signatures.into_iter().filter_map(|x| x): the filled slots in validator order.
RECURSIVE FilledSlots(_, _)
FilledSlots(msgs, n) ==
    IF n = 0 THEN <<>> ELSE FilledSlots(msgs, n - 1) \o SignatureSlot(msgs, n - 1)

\* .take(majority_count)
Take(seq, n) == SubSeq(seq, 1, IF Len(seq) < n THEN Len(seq) ELSE n)

\* try_finalize_proposal_tx without the comparison of anchoring heights.
try_finalize_proposal_tx_any_height(ns, st, id, h, proposal, rpc) ==
    LET msgs == SignaturesOf(st.signatures, TxId(proposal))
        collected == Take(FilledSlots(msgs, NumValidators), majority_count)
        new_lect == Finalize(proposal, collected)
        ns1 == Call(ns, "finalize")
        ns2 == Call(ns1, "get_raw_transaction")
        ns3 == Call(ns2, "send_raw_transaction")
        ns4 == IF rpc.get_info THEN ns2 ELSE [ns3 EXCEPT !.sent = Append(@, new_lect)]
        lect_msg == OwnUpdateLatest(st, id, new_lect)
    IN  IF Len(msgs) < majority_count THEN Ok(ns)
        ELSE IF \E i \in 1 .. Len(msgs) : msgs[i].validator \notin Validators
             THEN Ok(Panic(ns, "signatures[validator]: index out of bounds"))
        ELSE IF rpc.fail = "finalize" THEN Err(ns1)
        ELSE IF rpc.fail = "get_raw_transaction" THEN Err(ns2)
        ELSE IF ~rpc.get_info /\ rpc.fail = "send_raw_transaction" THEN Err(ns3)
        ELSE Ok(add_transaction([ns4 EXCEPT !.proposal = <<>>], lect_msg))

\* try_finalize_proposal_tx that forgets `self.proposal_tx = None`.
try_finalize_proposal_tx_keeps_proposal(ns, st, id, h, proposal, rpc) ==
    LET msgs == SignaturesOf(st.signatures, TxId(proposal))
        collected == Take(FilledSlots(msgs, NumValidators), majority_count)
        new_lect == Finalize(proposal, collected)
        ns1 == Call(ns, "finalize")
        ns2 == Call(ns1, "get_raw_transaction")
        ns3 == Call(ns2, "send_raw_transaction")
        ns4 == IF rpc.get_info THEN ns2 ELSE [ns3 EXCEPT !.sent = Append(@, new_lect)]
        lect_msg == OwnUpdateLatest(st, id, new_lect)
    IN  IF nearest_anchoring_height(h) # nearest_anchoring_height(PayloadHeight(proposal))
        THEN Ok([ns EXCEPT !.proposal = <<>>])
        ELSE IF Len(msgs) < majority_count THEN Ok(ns)
        ELSE IF \E i \in 1 .. Len(msgs) : msgs[i].validator \notin Validators
             THEN Ok(Panic(ns, "signatures[validator]: index out of bounds"))
        ELSE IF rpc.fail = "finalize" THEN Err(ns1)
        ELSE IF rpc.fail = "get_raw_transaction" THEN Err(ns2)
        ELSE IF ~rpc.get_info /\ rpc.fail = "send_raw_transaction" THEN Err(ns3)
        ELSE Ok(add_transaction(ns4, lect_msg))

\* try_finalize_proposal_tx that drops a proposal whose signatures are not
\* yet enough.
try_finalize_proposal_tx_impatient(ns, st, id, h, proposal, rpc) ==
    LET msgs == SignaturesOf(st.signatures, TxId(proposal))
        collected == Take(FilledSlots(msgs, NumValidators), majority_count)
        new_lect == Finalize(proposal, collected)
        ns1 == Call(ns, "finalize")
        ns2 == Call(ns1, "get_raw_transaction")
        ns3 == Call(ns2, "send_raw_transaction")
        ns4 == IF rpc.get_info THEN ns2 ELSE [ns3 EXCEPT !.sent = Append(@, new_lect)]
        lect_msg == OwnUpdateLatest(st, id, new_lect)
    IN  IF nearest_anchoring_height(h) # nearest_anchoring_height(PayloadHeight(proposal))
        THEN Ok([ns EXCEPT !.proposal = <<>>])
        ELSE IF Len(msgs) < majority_count THEN Ok([ns EXCEPT !.proposal = <<>>])
        ELSE IF \E i \in 1 .. Len(msgs) : msgs[i].validator \notin Validators
             THEN Ok(Panic(ns, "signatures[validator]: index out of bounds"))
        ELSE IF rpc.fail = "finalize" THEN Err(ns1)
        ELSE IF rpc.fail = "get_raw_transaction" THEN Err(ns2)
        ELSE IF ~rpc.get_info /\ rpc.fail = "send_raw_transaction" THEN Err(ns3)
        ELSE Ok(add_transaction([ns4 EXCEPT !.proposal = <<>>], lect_msg))

\* try_finalize_proposal_tx that keeps a proposal of another anchoring
\* interval and waits for it.
try_finalize_proposal_tx_waits(ns, st, id, h, proposal, rpc) ==
    LET msgs == SignaturesOf(st.signatures, TxId(proposal))
        collected == Take(FilledSlots(msgs, NumValidators), majority_count)
        new_lect == Finalize(proposal, collected)
        ns1 == Call(ns, "finalize")
        ns2 == Call(ns1, "get_raw_transaction")
        ns3 == Call(ns2, "send_raw_transaction")
        ns4 == IF rpc.get_info THEN ns2 ELSE [ns3 EXCEPT !.sent = Append(@, new_lect)]
        lect_msg == OwnUpdateLatest(st, id, new_lect)
    IN  IF nearest_anchoring_height(h) # nearest_anchoring_height(PayloadHeight(proposal))
        THEN Ok(ns)
        ELSE IF Len(msgs) < majority_count THEN Ok(ns)
        ELSE IF \E i \in 1 .. Len(msgs) : msgs[i].validator \notin Validators
             THEN Ok(Panic(ns, "signatures[validator]: index out of bounds"))
        ELSE IF rpc.fail = "finalize" THEN Err(ns1)
        ELSE IF rpc.fail = "get_raw_transaction" THEN Err(ns2)
        ELSE IF ~rpc.get_info /\ rpc.fail = "send_raw_transaction" THEN Err(ns3)
        ELSE Ok(add_transaction([ns4 EXCEPT !.proposal = <<>>], lect_msg))

\* AnchoringService::try_finalize_proposal_tx
try_finalize_proposal_tx(ns, st, id, h, proposal, rpc) ==
    LET msgs == SignaturesOf(st.signatures, TxId(proposal))
        collected == Take(FilledSlots(msgs, NumValidators), majority_count)
        new_lect == Finalize(proposal, collected)
        ns1 == Call(ns, "finalize")
        ns2 == Call(ns1, "get_raw_transaction")
        ns3 == Call(ns2, "send_raw_transaction")
        ns4 == IF rpc.get_info THEN ns2 ELSE [ns3 EXCEPT !.sent = Append(@, new_lect)]
        lect_msg == OwnUpdateLatest(st, id, new_lect)
    IN  IF nearest_anchoring_height(h) # nearest_anchoring_height(PayloadHeight(proposal))
        THEN Ok([ns EXCEPT !.proposal = <<>>])
        ELSE IF Len(msgs) < majority_count THEN Ok(ns)
        ELSE IF \E i \in 1 .. Len(msgs) : msgs[i].validator \notin Validators
             THEN Ok(Panic(ns, "signatures[validator]: index out of bounds"))
        ELSE IF rpc.fail = "finalize" THEN Err(ns1)
        ELSE IF rpc.fail = "get_raw_transaction" THEN Err(ns2)
        ELSE IF ~rpc.get_info /\ rpc.fail = "send_raw_transaction" THEN Err(ns3)
        ELSE Ok(add_transaction([ns4 EXCEPT !.proposal = <<>>], lect_msg))

\* `.log_error(..).unwrap()`: an Err of a step panics in handle_commit.
Unwrap(result, place) ==
    IF result.err THEN Panic(result.ns, place) ELSE result.ns

\* handle_commit that tests the proposal twice: it tries to finalize when a
\* proposal exists and then tries to create when none exists any more.
handle_commit_falls_through(st, id, h, proposal, rpc) ==
    LET ns0 == [proposal |-> proposal, queue |-> <<>>, calls |-> <<>>,
                sent |-> <<>>, panic |-> <<>>]
        ns1 == Unwrap(update_our_lect(ns0, st, id, h, rpc), "Unable to update lect")
        ns2 == IF ns1.proposal # <<>>
               THEN Unwrap(try_finalize_proposal_tx(ns1, st, id, h, ns1.proposal[1], rpc),
                           "Unable to finalize proposal tx")
               ELSE ns1
    IN  IF ns1.panic # <<>> THEN ns1
        ELSE IF ns2.panic # <<>> THEN ns2
        ELSE IF ns2.proposal = <<>>
             THEN Unwrap(try_create_proposal_tx(ns2, st, id, h, rpc),
                         "Unable to create proposal tx")
             ELSE ns2

\* AnchoringService::handle_commit
handle_commit(st, id, h, proposal, rpc) ==
    LET ns0 == [proposal |-> proposal, queue |-> <<>>, calls |-> <<>>,
                sent |-> <<>>, panic |-> <<>>]
        ns1 == Unwrap(update_our_lect(ns0, st, id, h, rpc), "Unable to update lect")
    IN  IF ns1.panic # <<>> THEN ns1
        ELSE IF ns1.proposal # <<>>
             THEN Unwrap(try_finalize_proposal_tx(ns1, st, id, h, ns1.proposal[1], rpc),
                         "Unable to finalize proposal tx")
             ELSE Unwrap(try_create_proposal_tx(ns1, st, id, h, rpc),
                         "Unable to create proposal tx")

(***************************************************************************)
(* The commit handler under a configuration with another anchoring         *)
(* frequency: the same code, reading `frequency` from the genesis           *)
(* configuration where the definitions above read AnchoringFrequency.      *)
(***************************************************************************)
\* AnchoringConfig::nearest_anchoring_height
nearest_anchoring_height_every(frequency, h) == h - (h % frequency)

\* AnchoringService::actual_payload
actual_payload_every(frequency, h) ==
    <<nearest_anchoring_height_every(frequency, h),
      BlockHash(nearest_anchoring_height_every(frequency, h))>>

\* AnchoringService::create_proposal_tx
create_proposal_tx_every(frequency, ns, id, h, tip, rpc) ==
    LET af == avaliable_funding_tx(ns, rpc)
        ns1 == Call(af.ns, "proposal")
        proposal == Proposal(tip, af.funding, actual_payload_every(frequency, h))
    IN  IF af.err THEN Err(af.ns)
        ELSE IF rpc.fail = "proposal" THEN Err(ns1)
        ELSE sign_proposal_tx(ns1, id, proposal, rpc)

\* AnchoringService::create_first_proposal_tx
create_first_proposal_tx_every(frequency, ns, id, h, rpc) ==
    LET af == avaliable_funding_tx(ns, rpc)
        ns1 == Call(af.ns, "make_anchoring_tx")
    IN  IF af.err THEN Err(af.ns)
        ELSE IF af.funding = <<>> THEN Ok(Panic(af.ns, "Funding transaction is not suitable."))
        ELSE IF rpc.fail = "make_anchoring_tx" THEN Err(ns1)
        ELSE sign_proposal_tx(ns1, id,
                              make_anchoring_tx(af.funding[1], actual_payload_every(frequency, h)),
                              rpc)

\* AnchoringService::try_create_proposal_tx
try_create_proposal_tx_every(frequency, ns, st, id, h, rpc) ==
    LET kind == check_lect(st, id)
    IN  IF kind.kind = "Different" THEN Ok(ns)
        ELSE IF kind.kind = "None" THEN create_first_proposal_tx_every(frequency, ns, id, h, rpc)
        ELSE IF nearest_anchoring_height_every(frequency, h) > AnchoredHeight(kind.tx[1])
             THEN create_proposal_tx_every(frequency, ns, id, h, kind.tx[1], rpc)
             ELSE Ok(ns)

\* AnchoringService::try_finalize_proposal_tx
try_finalize_proposal_tx_every(frequency, ns, st, id, h, proposal, rpc) ==
    LET msgs == SignaturesOf(st.signatures, TxId(proposal))
        collected == Take(FilledSlots(msgs, NumValidators), majority_count)
        new_lect == Finalize(proposal, collected)
        ns1 == Call(ns, "finalize")
        ns2 == Call(ns1, "get_raw_transaction")
        ns3 == Call(ns2, "send_raw_transaction")
        ns4 == IF rpc.get_info THEN ns2 ELSE [ns3 EXCEPT !.sent = Append(@, new_lect)]
        lect_msg == OwnUpdateLatest(st, id, new_lect)
    IN  IF nearest_anchoring_height_every(frequency, h)
            # nearest_anchoring_height_every(frequency, PayloadHeight(proposal))
        THEN Ok([ns EXCEPT !.proposal = <<>>])
        ELSE IF Len(msgs) < majority_count THEN Ok(ns)
        ELSE IF \E i \in 1 .. Len(msgs) : msgs[i].validator \notin Validators
             THEN Ok(Panic(ns, "signatures[validator]: index out of bounds"))
        ELSE IF rpc.fail = "finalize" THEN Err(ns1)
        ELSE IF rpc.fail = "get_raw_transaction" THEN Err(ns2)
        ELSE IF ~rpc.get_info /\ rpc.fail = "send_raw_transaction" THEN Err(ns3)
        ELSE Ok(add_transaction([ns4 EXCEPT !.proposal = <<>>], lect_msg))

\* AnchoringService::handle_commit
handle_commit_every(frequency, st, id, h, proposal, rpc) ==
    LET ns0 == [proposal |-> proposal, queue |-> <<>>, calls |-> <<>>,
                sent |-> <<>>, panic |-> <<>>]
        ns1 == Unwrap(update_our_lect(ns0, st, id, h, rpc), "Unable to update lect")
    IN  IF ns1.panic # <<>> THEN ns1
        ELSE IF ns1.proposal # <<>>
             THEN Unwrap(try_finalize_proposal_tx_every(frequency, ns1, st, id, h,
                                                        ns1.proposal[1], rpc),
                         "Unable to finalize proposal tx")
             ELSE Unwrap(try_create_proposal_tx_every(frequency, ns1, st, id, h, rpc),
                         "Unable to create proposal tx")

(***************************************************************************)
(* Messages other validators (honest or not) get committed.                *)
(***************************************************************************)
\* The first anchor: spends the funding output, anchors block 0.
Anchor0 == AnchoringTx(FundingTx, MultisigAddr, 0, BlockHash(0))

\* Anchor0 finalized with the signatures of validators 0, 1 and 2.
Lect0 ==
    Finalize(Anchor0, [i \in 1 .. 3 |-> BtcSign(Anchor0, 0, RedeemScript, BtcKey(i - 1), 1)])

\* An anchor paying a multisig address that no configuration owns.
UnknownAddrTx == AnchoringTx(FundingTx, UnknownAddr, 0, BlockHash(0))

\* An anchor whose payload hash is not the hash of the block it names.
BadPayloadTx == AnchoringTx(FundingTx, MultisigAddr, 0, ZeroHash)

Proposals == {proposal_tx[n][1] : n \in {v \in Validators : proposal_tx[v] # <<>>}}

InjectedSignatures ==
    \* well-formed signatures of validators 1 and 2
    {MsgAnchoringSignature(v, v, tx, 0, BtcSign(tx, 0, RedeemScript, BtcKey(v), 1)) :
        v \in {1, 2}, tx \in {Anchor0, UnknownAddrTx, BadPayloadTx} \cup Proposals}
    \* a second, byte-distinct signature of validator 1 that also verifies
    \cup {MsgAnchoringSignature(1, 1, tx, 0, BtcSign(tx, 0, RedeemScript, BtcKey(1), 2)) :
        tx \in {Anchor0} \cup Proposals}
    \* validator 1 sends a signature made by validator 2 as validator 2
    \cup {MsgAnchoringSignature(1, 2, Anchor0, 0, BtcSign(Anchor0, 0, RedeemScript, BtcKey(2), 1))}
    \* validator 1 names a validator that does not exist
    \cup {MsgAnchoringSignature(1, NonexistentValidator, tx, 0,
                                BtcSign(tx, 0, RedeemScript, BtcKey(0), 1)) :
        tx \in {Anchor0} \cup Proposals}
    \* validator 1 sends the signature of validator 0 as its own
    \cup {MsgAnchoringSignature(1, 1, Anchor0, 0, BtcSign(Anchor0, 0, RedeemScript, BtcKey(0), 1))}

InjectedUpdateLatest ==
    \* own LECT updates of validators 0, 1 and 2, with a right or a wrong count
    {MsgAnchoringUpdateLatest(v, v, tx, k) :
        v \in {0, 1, 2}, tx \in {FundingTx, Lect0} \cup sent, k \in {1, 2}}
    \* validator 2 updates the list of validator 0
    \cup {MsgAnchoringUpdateLatest(2, 0, Lect0, k) : k \in {1, 2}}
    \* validator 2 names a validator that does not exist
    \cup {MsgAnchoringUpdateLatest(2, NonexistentValidator, Lect0, k) : k \in {0, 2}}
    \* wrong payload, unknown funding address
    \cup {MsgAnchoringUpdateLatest(0, 0, tx, 1) : tx \in {BadPayloadTx, ForeignFundingTx}}

\* Every message of the bounded universe, well-formed or not.
AnyMessages == InjectedSignatures \cup InjectedUpdateLatest

\* What the peers of node 0 get committed while node 0 runs: signatures of
\* validators 1 and 2 for its proposals (one of them twice, one naming a
\* validator that does not exist), and their own LECT updates.
PeerMessages ==
    {MsgAnchoringSignature(v, v, tx, 0, BtcSign(tx, 0, RedeemScript, BtcKey(v), 1)) :
        v \in {1, 2}, tx \in Proposals}
    \cup {MsgAnchoringSignature(1, 1, tx, 0, BtcSign(tx, 0, RedeemScript, BtcKey(1), 2)) :
        tx \in Proposals}
    \cup {MsgAnchoringSignature(1, NonexistentValidator, tx, 0,
                                BtcSign(tx, 0, RedeemScript, BtcKey(0), 1)) :
        tx \in Proposals}
    \cup {MsgAnchoringUpdateLatest(v, v, tx, Len(lects[v])) :
        v \in {1, 2}, tx \in {Lect0} \cup sent}

\* A message whose effect is already in the store: it was committed before,
\* and a committed message is not committed a second time.
AlreadyStored(msg) ==
    IF msg.type = "Signature"
    THEN \E i \in 1 .. Len(SignaturesOf(signatures, TxId(msg.tx))) :
            SignaturesOf(signatures, TxId(msg.tx))[i] = msg
    ELSE /\ msg.validator \in ValidatorIds
         /\ \E i \in 1 .. Len(lects[msg.validator]) : lects[msg.validator][i] = msg.tx

\* What gets committed around node 0 when the commit handler is followed over
\* a whole anchoring interval: the signatures of validators 1 and 2 for its
\* proposal (validator 1 signs twice), the LECT update of validator 1, and an
\* update of node 0's own list sent by validator 2.
NodePeerMessages ==
    {msg \in
        {MsgAnchoringSignature(v, v, tx, 0, BtcSign(tx, 0, RedeemScript, BtcKey(v), 1)) :
            v \in {1, 2}, tx \in Proposals}
        \cup {MsgAnchoringSignature(1, 1, tx, 0, BtcSign(tx, 0, RedeemScript, BtcKey(1), 2)) :
            tx \in Proposals}
        \cup {MsgAnchoringUpdateLatest(1, 1, Lect0, Len(lects[1])),
              MsgAnchoringUpdateLatest(2, 0, Lect0, Len(lects[0]))} :
        ~AlreadyStored(msg)}

\* What the Bitcoin node may answer during one run of the commit handler.
RpcCalls ==
    {"find_lect", "list_unspent", "proposal", "make_anchoring_tx", "sign",
     "finalize", "get_raw_transaction", "send_raw_transaction"}

\* An answer that no call of the run can ask for is left at its first value:
\* nothing follows a failed find_lect, list_unspent is the only call that
\* reads the funding output, get_raw_transaction the only one that reads
\* whether the finalized transaction is known.
RpcAnswers ==
    {r \in [fail : RpcCalls \cup {"none"},
            find_lect : {<<>>} \cup {<<tx>> : tx \in {Lect0} \cup sent},
            funding : {"none", "unconfirmed", "confirmed"},
            get_info : BOOLEAN] :
        /\ r.fail = "find_lect" => r.find_lect = <<>>
        /\ r.fail \in {"find_lect", "list_unspent", "finalize", "get_raw_transaction",
                       "send_raw_transaction"} => r.funding = "none"
        /\ r.fail # "none" => ~r.get_info}

(***************************************************************************)
(* State machine.                                                          *)
(***************************************************************************)
Event(op, msg, calls, queue) == [op |-> op, msg |-> msg, calls |-> calls, queue |-> queue]

Init ==
    /\ lects = [v \in ValidatorIds |-> <<>>]
    /\ lect_indexes = [v \in ValidatorIds |-> EmptyMap]
    /\ signatures = EmptyMap
    /\ known_addresses = {}
    /\ genesis_done = FALSE
    /\ height = 0
    /\ proposal_tx = [v \in Validators |-> <<>>]
    /\ mempool = {}
    /\ sent = {}
    /\ committed = 0
    /\ last = Event("new", <<>>, <<>>, <<>>)
    /\ panicked = <<>>

\* AnchoringService::handle_genesis_block; importaddress(..).unwrap() panics
\* when the RPC call fails.
HandleGenesisBlock ==
    /\ ~genesis_done
    /\ panicked = <<>>
    /\ \E import_ok \in BOOLEAN :
        IF import_ok
        THEN /\ SetStore(create_genesis_config(Store))
             /\ genesis_done' = TRUE
             /\ panicked' = panicked
        ELSE /\ panicked' = <<"importaddress">>
             /\ UNCHANGED <<store, genesis_done>>
    /\ last' = Event("handle_genesis_block", <<>>, <<"importaddress">>, <<>>)
    /\ UNCHANGED <<node_vars, committed>>

Running == genesis_done /\ panicked = <<>>

\* A committed Signature message executed by MsgAnchoringSignature::execute.
ExecuteSignature(msg) ==
    /\ Running
    /\ msg.type = "Signature"
    /\ IF SignatureExecutePanics(msg)
       THEN /\ panicked' = <<"cfg.validators[validator]: index out of bounds">>
            /\ UNCHANGED store
       ELSE /\ SetStore(MsgAnchoringSignatureExecute(Store, msg))
            /\ panicked' = panicked
    /\ mempool' = mempool \ {msg}
    /\ committed' = committed + 1
    /\ last' = Event("MsgAnchoringSignature::execute", <<msg>>, <<>>, <<>>)
    /\ UNCHANGED <<genesis_done, height, proposal_tx, sent>>

\* A committed UpdateLatest message executed by MsgAnchoringUpdateLatest::execute.
ExecuteUpdateLatest(msg) ==
    /\ Running
    /\ msg.type = "UpdateLatest"
    /\ SetStore(MsgAnchoringUpdateLatestExecute(Store, msg))
    /\ mempool' = mempool \ {msg}
    /\ committed' = committed + 1
    /\ last' = Event("MsgAnchoringUpdateLatest::execute", <<msg>>, <<>>, <<>>)
    /\ UNCHANGED <<genesis_done, height, proposal_tx, sent, panicked>>

\* A committed message executed by Transaction::execute of service.rs.
ExecuteTransaction(msg) ==
    /\ Running
    /\ SetStore(TransactionExecute(Store, msg))
    /\ mempool' = mempool \ {msg}
    /\ committed' = committed + 1
    /\ last' = Event("Transaction::execute", <<msg>>, <<>>, <<>>)
    /\ UNCHANGED <<genesis_done, height, proposal_tx, sent, panicked>>

\* One run of handle_commit on node `id` after the block at `height`.
HandleCommit(id) ==
    /\ Running
    /\ \E ns \in {handle_commit(Store, id, height, proposal_tx[id], rpc) : rpc \in RpcAnswers} :
        /\ proposal_tx' = [proposal_tx EXCEPT ![id] = ns.proposal]
        /\ mempool' = mempool \cup {ns.queue[i] : i \in 1 .. Len(ns.queue)}
        /\ sent' = sent \cup {ns.sent[i] : i \in 1 .. Len(ns.sent)}
        /\ panicked' = ns.panic
        /\ last' = Event("handle_commit", <<>>, ns.calls, ns.queue)
    /\ height' = height + 1
    /\ UNCHANGED <<store, genesis_done, committed>>

\* Node 0 runs among its peers.
Next ==
    \/ HandleGenesisBlock
    \/ \E msg \in mempool \cup PeerMessages :
        committed < MaxCommitted /\ ExecuteSignature(msg)
    \/ \E msg \in mempool \cup PeerMessages :
        committed < MaxCommitted /\ ExecuteUpdateLatest(msg)
    \/ \E msg \in mempool \cup PeerMessages :
        committed < MaxCommitted /\ ExecuteTransaction(msg)
    \/ height <= MaxHeight /\ HandleCommit(0)

Spec == Init /\ [][Next]_vars

\* The replicated store under any committed messages.
NextMessages ==
    \/ HandleGenesisBlock
    \/ \E msg \in AnyMessages : committed < MaxInjected /\ ExecuteSignature(msg)
    \/ \E msg \in AnyMessages : committed < MaxInjected /\ ExecuteUpdateLatest(msg)
    \/ \E msg \in AnyMessages : committed < MaxInjected /\ ExecuteTransaction(msg)

SpecMessages == Init /\ [][NextMessages]_vars

\* The replicated store when every committed message is executed by the
\* execute method of its own message type (schema.rs).
NextSchema ==
    \/ HandleGenesisBlock
    \/ \E msg \in AnyMessages : committed < MaxInjected /\ ExecuteSignature(msg)
    \/ \E msg \in AnyMessages : committed < MaxInjected /\ ExecuteUpdateLatest(msg)

SpecSchema == Init /\ [][NextSchema]_vars

\* Node 0 followed over a whole anchoring interval and into the next one.
NextNode ==
    \/ HandleGenesisBlock
    \/ \E msg \in mempool \cup NodePeerMessages :
        committed < MaxCommitted /\ ExecuteSignature(msg)
    \/ \E msg \in mempool \cup NodePeerMessages :
        committed < MaxCommitted /\ ExecuteUpdateLatest(msg)
    \/ height <= MaxNodeHeight /\ HandleCommit(0)

SpecNode == Init /\ [][NextNode]_vars

\* Node 0 among honest peers: validators 1 and 2 sign its proposals once and
\* update their own LECT lists; the list of node 0 is written by its own
\* messages alone, and a committed message is not committed a second time.
HonestPeerMessages ==
    {msg \in
        {MsgAnchoringSignature(v, v, tx, 0, BtcSign(tx, 0, RedeemScript, BtcKey(v), 1)) :
            v \in {1, 2}, tx \in Proposals}
        \cup {MsgAnchoringUpdateLatest(v, v, Lect0, Len(lects[v])) : v \in {1, 2}} :
        ~AlreadyStored(msg)}

NextHonest ==
    \/ HandleGenesisBlock
    \/ \E msg \in mempool \cup HonestPeerMessages :
        committed < MaxOwnCommitted /\ ExecuteSignature(msg)
    \/ \E msg \in mempool \cup HonestPeerMessages :
        committed < MaxOwnCommitted /\ ExecuteUpdateLatest(msg)
    \/ height <= MaxOwnHeight /\ HandleCommit(0)

SpecHonest == Init /\ [][NextHonest]_vars

\* SpecHonest with blocks that keep being committed: the framework calls
\* handle_commit after every block for as long as the node runs. The steps
\* of SpecHonest that raise the height are the runs of the commit handler,
\* and a run is possible whenever the node is running.
CommitTick == Running /\ height <= MaxOwnHeight /\ height' = height + 1

SpecHonestFair == SpecHonest /\ WF_height(CommitTick)

\* One run of the commit handler of node `id` under a configuration whose
\* anchoring frequency is `frequency`.
HandleCommitEvery(frequency, id) ==
    /\ Running
    /\ \E ns \in {handle_commit_every(frequency, Store, id, height, proposal_tx[id], rpc) :
                    rpc \in RpcAnswers} :
        /\ proposal_tx' = [proposal_tx EXCEPT ![id] = ns.proposal]
        /\ mempool' = mempool \cup {ns.queue[i] : i \in 1 .. Len(ns.queue)}
        /\ sent' = sent \cup {ns.sent[i] : i \in 1 .. Len(ns.sent)}
        /\ panicked' = ns.panic
        /\ last' = Event("handle_commit", <<>>, ns.calls, ns.queue)
    /\ height' = height + 1
    /\ UNCHANGED <<store, genesis_done, committed>>

\* Node 0 among honest peers under the longer anchoring interval.
NextLongInterval ==
    \/ HandleGenesisBlock
    \/ \E msg \in mempool \cup HonestPeerMessages :
        committed < MaxOwnCommitted /\ ExecuteSignature(msg)
    \/ \E msg \in mempool \cup HonestPeerMessages :
        committed < MaxOwnCommitted /\ ExecuteUpdateLatest(msg)
    \/ height <= MaxOwnHeight /\ HandleCommitEvery(LongAnchoringFrequency, 0)

SpecLongInterval == Init /\ [][NextLongInterval]_vars

\* The answers of a working Bitcoin node: no call fails, the funding output
\* is confirmed until something spends it, and find_lect finds nothing newer
\* than what the validators have sent.
HappyRpcAnswers ==
    {r \in RpcAnswers :
        /\ r.fail = "none"
        /\ r.funding = (IF sent = {} THEN "confirmed" ELSE "none")
        /\ r.find_lect \in {<<>>} \cup {<<tx>> : tx \in sent}}

\* The commit handlers of all validators after the block at `height`; their
\* Bitcoin nodes see the same network and answer alike.  The block carries
\* every message enqueued before it, so the handlers run on an empty pool.
HandleCommitEveryNode ==
    /\ Running
    /\ mempool = {}
    /\ \E run \in {[v \in Validators |->
                        handle_commit(Store, v, height, proposal_tx[v], rpc)] :
                    rpc \in HappyRpcAnswers} :
        /\ proposal_tx' = [v \in Validators |-> run[v].proposal]
        /\ mempool' = UNION {{run[v].queue[i] : i \in 1 .. Len(run[v].queue)} : v \in Validators}
        /\ sent' = sent \cup UNION {{run[v].sent[i] : i \in 1 .. Len(run[v].sent)} :
                                        v \in Validators}
        /\ panicked' = (IF \A v \in Validators : run[v].panic = <<>> THEN <<>>
                        ELSE run[CHOOSE v \in Validators : run[v].panic # <<>>].panic)
        /\ last' = Event("handle_commit", <<>>,
                         run[0].calls \o run[1].calls \o run[2].calls \o run[3].calls,
                         run[0].queue \o run[1].queue \o run[2].queue \o run[3].queue)
    /\ height' = height + 1
    /\ UNCHANGED <<store, genesis_done, committed>>

\* Four honest validators with working Bitcoin nodes: every message a handler
\* enqueues is committed and executed by the execute method of its own type
\* (schema.rs), in any order, and blocks keep coming.
NextHappy ==
    \/ HandleGenesisBlock /\ panicked' = <<>>
    \/ \E msg \in mempool : ExecuteSignature(msg)
    \/ \E msg \in mempool : ExecuteUpdateLatest(msg)
    \/ height <= MaxHeight /\ HandleCommitEveryNode

SpecHappy == Init /\ [][NextHappy]_vars /\ WF_vars(NextHappy)

\* What the Bitcoin nodes of the validators answer when each node asks its
\* own: every call succeeds, and each node's view of the funding output is
\* its own (a Bitcoin node one block behind counts one confirmation less).
OwnRpcViews ==
    [Validators -> {r \in RpcAnswers :
                        /\ r.fail = "none"
                        /\ r.find_lect = <<>>
                        /\ ~r.get_info}]

\* The commit handlers of all validators after the block at `height`, each
\* with the answers of its own Bitcoin node.
HandleCommitOwnViews ==
    /\ Running
    /\ mempool = {}
    /\ \E run \in {[v \in Validators |->
                        handle_commit(Store, v, height, proposal_tx[v], rpc[v])] :
                    rpc \in OwnRpcViews} :
        /\ proposal_tx' = [v \in Validators |-> run[v].proposal]
        /\ mempool' = UNION {{run[v].queue[i] : i \in 1 .. Len(run[v].queue)} : v \in Validators}
        /\ sent' = sent \cup UNION {{run[v].sent[i] : i \in 1 .. Len(run[v].sent)} :
                                        v \in Validators}
        /\ panicked' = (IF \A v \in Validators : run[v].panic = <<>> THEN <<>>
                        ELSE run[CHOOSE v \in Validators : run[v].panic # <<>>].panic)
        /\ last' = Event("handle_commit", <<>>,
                         run[0].calls \o run[1].calls \o run[2].calls \o run[3].calls,
                         run[0].queue \o run[1].queue \o run[2].queue \o run[3].queue)
    /\ height' = height + 1
    /\ UNCHANGED <<store, genesis_done, committed>>

\* Four honest validators, each with its own working Bitcoin node.
NextOwnViews ==
    \/ HandleGenesisBlock /\ panicked' = <<>>
    \/ \E msg \in mempool : ExecuteSignature(msg)
    \/ \E msg \in mempool : ExecuteUpdateLatest(msg)
    \/ height <= MaxHeight /\ HandleCommitOwnViews

SpecOwnViews == Init /\ [][NextOwnViews]_vars

(***************************************************************************)
(* Properties.  A step "executes m" when the event it leaves in `last`     *)
(* carries m; every action writes `last`.                                  *)
(***************************************************************************)
ExecutedMsg == last.msg[1]

IsExecute(kind) == last.msg # <<>> /\ last.msg[1].type = kind

\* The transaction is the configured funding transaction or an anchor that
\* pays a known address and names the hash of the block at its height.
WellFormedLect(tx) ==
    \/ tx = FundingTx
    \/ /\ tx.payload # <<>>
       /\ tx.addr \in known_addresses
       /\ PayloadHash(tx) = BlockHash(PayloadHeight(tx))

\* C1: an UpdateLatest(v, tx, k) executed when len(lects(v)) # k changes no
\* table of the store, and a list only grows at position k by a message that
\* carried lect_count = k (or by genesis).
C1_StaleUpdateLatestChangesNothing ==
    [][/\ (IsExecute("UpdateLatest")' /\ Len(lects[ExecutedMsg'.validator]) # ExecutedMsg'.lect_count)
            => UNCHANGED store
       /\ \A v \in ValidatorIds :
            Len(lects'[v]) > Len(lects[v]) =>
                \/ last'.op = "handle_genesis_block"
                \/ /\ IsExecute("UpdateLatest")'
                   /\ ExecutedMsg'.validator = v
                   /\ ExecutedMsg'.lect_count = Len(lects[v])]_vars

\* C2: an UpdateLatest(v, tx, k) of validator v itself with a well-formed tx
\* and k = len(lects(v)) makes tx the new last entry of lects(v), whose
\* length becomes k + 1.
C2_MatchingUpdateLatestAppends ==
    [][(/\ IsExecute("UpdateLatest")'
        /\ ExecutedMsg'.from = ExecutedMsg'.validator
        /\ ExecutedMsg'.validator \in Validators
        /\ WellFormedLect(ExecutedMsg'.tx)
        /\ ExecutedMsg'.lect_count = Len(lects[ExecutedMsg'.validator]))
       => /\ lects'[ExecutedMsg'.validator]
                = Append(lects[ExecutedMsg'.validator], ExecutedMsg'.tx)
          /\ Len(lects'[ExecutedMsg'.validator]) = ExecutedMsg'.lect_count + 1
          /\ lects'[ExecutedMsg'.validator][ExecutedMsg'.lect_count + 1] = ExecutedMsg'.tx]_vars

\* The funding transaction re-asserted by validator 0 after an anchor, through
\* the guarded execute.
C2_Witness ==
    /\ last.op = "MsgAnchoringUpdateLatest::execute"
    /\ last.msg = <<MsgAnchoringUpdateLatest(0, 0, FundingTx, 2)>>
    /\ lects[0] = <<FundingTx, Lect0, FundingTx>>

\* C3: every LECT list is append-only: its length never decreases and an
\* entry, once written, stays.
C3_LectsAppendOnly ==
    [][\A v \in ValidatorIds :
          /\ Len(lects'[v]) >= Len(lects[v])
          /\ \A i \in 1 .. Len(lects[v]) : lects'[v][i] = lects[v][i]]_vars

\* Two lists have grown past the genesis entry.
C3_Witness ==
    /\ Len(lects[1]) = 2
    /\ Len(lects[2]) = 2
    /\ lects[1][1] = FundingTx
    /\ lects[2][2] = Lect0

\* C4: right after genesis the configured multisig address is known and the
\* list of every validator in [0, N) is exactly [funding_tx].
C4_GenesisSeedsEveryValidator ==
    (last.op = "handle_genesis_block" /\ genesis_done)
        => /\ MultisigAddr \in known_addresses
           /\ \A v \in Validators :
                /\ lects[v] = <<FundingTx>>
                /\ lect(Store, v) = <<FundingTx>>

C4_Witness ==
    /\ last.op = "handle_genesis_block"
    /\ genesis_done
    /\ panicked = <<>>
    /\ Len(lects[NumValidators - 1]) = 1

\* C5: in every state, find_lect_position(v, txid(tx)) is Some(i) exactly when
\* position i of lects(v) holds tx: every position of a list is found under
\* the txid of its entry, and every indexed txid points at its transaction.
C5_FindLectPositionMatchesList ==
    \A v \in ValidatorIds :
        /\ \A i \in 0 .. (Len(lects[v]) - 1) :
              find_lect_position(Store, v, TxId(lects[v][i + 1])) = <<i>>
        /\ \A txid \in DOMAIN lect_indexes[v] :
              /\ lect_indexes[v][txid] < Len(lects[v])
              /\ TxId(lects[v][lect_indexes[v][txid] + 1]) = txid

\* signatures(txid) of the transaction the executed message is about.
SignaturesBefore == SignaturesOf(signatures, TxId(ExecutedMsg'.tx))

SignaturesAfter == SignaturesOf(signatures', TxId(ExecutedMsg'.tx))

\* C6: executing a Signature message of a validator and input for which
\* signatures(txid) already holds another message (one with a different
\* signature) leaves signatures(txid) unchanged, so the list never holds two
\* messages of one (validator, input).
C6_OneSignaturePerValidatorAndInput ==
    [][(/\ IsExecute("Signature")'
        /\ \E i \in 1 .. Len(SignaturesBefore) :
              /\ SignaturesBefore[i].validator = ExecutedMsg'.validator
              /\ SignaturesBefore[i].input = ExecutedMsg'.input
              /\ SignaturesBefore[i].signature # ExecutedMsg'.signature)
       => SignaturesAfter = SignaturesBefore]_vars

\* C7: executing a Signature message whose validator field is not the index
\* of its author leaves signatures(txid) unchanged.
C7_WrongAuthorSignatureDropped ==
    [][(IsExecute("Signature")' /\ ExecutedMsg'.from # ExecutedMsg'.validator)
       => SignaturesAfter = SignaturesBefore]_vars

\* C8: executing a Signature message whose validator field is outside [0, N)
\* changes no table and does not abort, and no run of the commit handler
\* aborts on a stored signature of a validator outside [0, N).
C8_NonexistentValidatorSignatureDropped ==
    [][/\ (IsExecute("Signature")' /\ ExecutedMsg'.validator \notin Validators)
            => (UNCHANGED store /\ panicked' = <<>>)
       /\ panicked' # <<"signatures[validator]: index out of bounds">>]_vars

\* C9: executing a Signature message for a transaction whose output 0 pays an
\* address outside known_addresses leaves signatures(txid) unchanged.
C9_UnknownAddressSignatureDropped ==
    [][(IsExecute("Signature")' /\ ~is_address_known(Store, ExecutedMsg'.tx.addr))
       => SignaturesAfter = SignaturesBefore]_vars

\* C10: executing a Signature message of a validator in [0, N) whose Bitcoin
\* signature does not verify for the redeem script, the input and the public
\* key of that validator leaves signatures(txid) unchanged and does not abort.
C10_UnverifiedSignatureDropped ==
    [][(/\ IsExecute("Signature")'
        /\ ExecutedMsg'.validator \in Validators
        /\ ~Verify(ExecutedMsg'.tx, RedeemScript, ExecutedMsg'.input,
                   BtcKey(ExecutedMsg'.validator), ExecutedMsg'.signature))
       => (SignaturesAfter = SignaturesBefore /\ panicked' = <<>>)]_vars

\* The payload names the hash of the block committed at its height.
CorrectPayload(tx) ==
    tx.payload # <<>> /\ PayloadHash(tx) = BlockHash(PayloadHeight(tx))

\* C11: executing a Signature message that passes every check (author is the
\* claimed validator in [0, N), the Bitcoin signature verifies, output 0 pays
\* a known address, the payload is correct) while signatures(txid) is empty
\* makes signatures(txid) exactly [msg], whether or not a proposal with that
\* txid exists.
C11_ValidSignatureAppended ==
    [][(/\ IsExecute("Signature")'
        /\ ExecutedMsg'.from = ExecutedMsg'.validator
        /\ ExecutedMsg'.validator \in Validators
        /\ Verify(ExecutedMsg'.tx, RedeemScript, ExecutedMsg'.input,
                  BtcKey(ExecutedMsg'.validator), ExecutedMsg'.signature)
        /\ is_address_known(Store, ExecutedMsg'.tx.addr)
        /\ CorrectPayload(ExecutedMsg'.tx)
        /\ SignaturesBefore = <<>>)
       => SignaturesAfter = <<ExecutedMsg'>>]_vars

\* The signature of validator 1 for the first anchor, recorded by
\* MsgAnchoringSignature::execute while no node holds a proposal.
C11_Witness ==
    /\ last.op = "MsgAnchoringSignature::execute"
    /\ ExecutedMsg = MsgAnchoringSignature(1, 1, Anchor0, 0,
                                           BtcSign(Anchor0, 0, RedeemScript, BtcKey(1), 1))
    /\ \A v \in Validators : proposal_tx[v] = <<>>
    /\ SignaturesOf(signatures, TxId(Anchor0)) = <<ExecutedMsg>>

\* C12: executing a Signature message whose payload hash is not the hash of
\* the block at the payload height leaves signatures(txid) unchanged.
C12_WrongPayloadSignatureDropped ==
    [][(IsExecute("Signature")' /\ ~CorrectPayload(ExecutedMsg'.tx))
       => SignaturesAfter = SignaturesBefore]_vars

\* C13: executing an UpdateLatest message that names a validator in [0, N)
\* other than its author leaves lects(validator) unchanged.
C13_WrongAuthorUpdateLatestDropped ==
    [][(/\ IsExecute("UpdateLatest")'
        /\ ExecutedMsg'.validator \in Validators
        /\ ExecutedMsg'.from # ExecutedMsg'.validator)
       => lects'[ExecutedMsg'.validator] = lects[ExecutedMsg'.validator]]_vars

\* C14: in every state the list and the index of every id outside [0, N) are
\* empty, and executing an UpdateLatest message that names such an id changes
\* no list.
C14_NonexistentValidatorUpdateLatestDropped ==
    [][/\ \A v \in ValidatorIds \ Validators :
            lects'[v] = <<>> /\ lect_indexes'[v] = EmptyMap
       /\ (IsExecute("UpdateLatest")' /\ ExecutedMsg'.validator \notin Validators)
            => UNCHANGED <<lects, lect_indexes>>]_vars

\* C15: executing an UpdateLatest message of the right validator with the
\* right lect_count whose anchoring payload hash is not the hash of the block
\* at the payload height leaves lects(validator) unchanged.
C15_WrongPayloadUpdateLatestDropped ==
    [][(/\ IsExecute("UpdateLatest")'
        /\ ExecutedMsg'.validator \in Validators
        /\ ExecutedMsg'.from = ExecutedMsg'.validator
        /\ ExecutedMsg'.lect_count = Len(lects[ExecutedMsg'.validator])
        /\ ExecutedMsg'.tx.payload # <<>>
        /\ ~CorrectPayload(ExecutedMsg'.tx))
       => lects'[ExecutedMsg'.validator] = lects[ExecutedMsg'.validator]]_vars

\* C16: in every state, output 0 of every transaction in a LECT list and of
\* every transaction a stored Signature message is about pays a known
\* address or the configured multisig address.
C16_StoredTransactionsPayKnownAddress ==
    /\ \A v \in ValidatorIds : \A i \in 1 .. Len(lects[v]) :
          lects[v][i].addr \in known_addresses \cup {MultisigAddr}
    /\ \A txid \in DOMAIN signatures : \A i \in 1 .. Len(signatures[txid]) :
          signatures[txid][i].tx.addr \in known_addresses \cup {MultisigAddr}

\* The validators in [0, N) whose last LECT is the last LECT of `id`, each
\* counted once.
AgreeingValidators(id) == {v \in Validators : lect(Store, v) = lect(Store, id)}

\* C17: for every node, check_lect returns Some(mine) exactly when the own
\* list is non-empty and at least floor(2N/3) + 1 distinct validators (the
\* node itself counted once) have mine as their last LECT, None exactly when
\* the own list is empty, and Different otherwise.
C17_CheckLectCountsDistinctValidators ==
    \A id \in Validators :
        LET mine == lect(Store, id)
            agreed == mine # <<>> /\ Cardinality(AgreeingValidators(id)) >= majority_count
            kind == check_lect(Store, id)
        IN  /\ (kind.kind = "Some") <=> agreed
            /\ (kind.kind = "Some") => kind.tx = mine
            /\ (kind.kind = "None") <=> (mine = <<>>)
            /\ (kind.kind = "Different") <=> (mine # <<>> /\ ~agreed)

\* A run of the commit handler that finalized the local proposal: it called
\* finalize and went on to enqueue its UpdateLatest.
FinalizedStep ==
    /\ last'.op = "handle_commit"
    /\ panicked' = <<>>
    /\ \E i \in 1 .. Len(last'.calls) : last'.calls[i] = "finalize"

\* The messages of signatures(txid) for the local proposal of node 0.
ProposalSignatures == SignaturesOf(signatures, TxId(proposal_tx[0][1]))

\* The witness of the transaction the finalizing run enqueued.
FinalizedWitness == last'.queue[Len(last'.queue)].tx.script_sig

\* C18: a run of the commit handler finalizes the local proposal only when
\* signatures(txid) holds messages of at least majority_count distinct
\* validators, and the witness it assembles holds the signatures of at least
\* majority_count distinct validators in validator order.
C18_FinalizeNeedsDistinctValidators ==
    [][FinalizedStep =>
        /\ Cardinality({ProposalSignatures[i].validator :
                            i \in 1 .. Len(ProposalSignatures)} \cap Validators)
              >= majority_count
        /\ Len(FinalizedWitness) >= majority_count
        /\ \A i, j \in 1 .. Len(FinalizedWitness) :
              i < j => FinalizedWitness[i].key < FinalizedWitness[j].key]_vars

\* The places where handle_commit unwraps the Result of a step.
RpcUnwrapPlaces ==
    {"Unable to update lect", "Unable to finalize proposal tx", "Unable to create proposal tx"}

\* C19: a run of the commit handler in which an RPC call fails still
\* completes: it does not panic on the failed step, and it leaves the
\* replicated store unchanged.
C19_RpcFailureSwallowed ==
    [][last'.op = "handle_commit" =>
        /\ \A place \in RpcUnwrapPlaces : panicked' # <<place>>
        /\ UNCHANGED store]_vars

\* C20: a run of the commit handler of node 0 whose LECT is not yet an anchor
\* (the first anchor is still to be made) and to which list_unspent reports
\* the funding output with too few confirmations creates no local proposal,
\* enqueues no Signature message and does not panic.
C20_UnconfirmedFundingWaits ==
    [][(/\ last'.op = "handle_commit"
        /\ proposal_tx[0] = <<>>
        /\ lect(Store, 0) \in {<<>>, <<FundingTx>>}
        /\ \E i \in 1 .. Len(last'.calls) : last'.calls[i] = "list_unspent: unconfirmed")
       => /\ proposal_tx'[0] = <<>>
          /\ \A i \in 1 .. Len(last'.queue) : last'.queue[i].type # "Signature"
          /\ panicked' = <<>>]_vars

\* The sets of at least majority_count validators whose lists end with the
\* same transaction.
SharingSets ==
    {S \in SUBSET Validators :
        /\ Cardinality(S) >= majority_count
        /\ \A v, w \in S : lects[v] # <<>> /\ lect(Store, v) = lect(Store, w)}

\* C21: when at least majority_count validators share a last LECT, executing
\* an UpdateLatest message leaves them sharing a last LECT unless the message
\* is authored by one of them and appends an entry to that validator's own
\* list; a message authored outside the set, or a dropped one, never breaks
\* the agreement.
C21_AgreementBrokenOnlyByOwnAppend ==
    [][IsExecute("UpdateLatest")' =>
        \A S \in SharingSets :
            \/ \A v, w \in S :
                  /\ lects'[v] # <<>>
                  /\ lects'[v][Len(lects'[v])] = lects'[w][Len(lects'[w])]
            \/ /\ ExecutedMsg'.from \in S
               /\ ExecutedMsg'.validator = ExecutedMsg'.from
               /\ Len(lects'[ExecutedMsg'.from]) > Len(lects[ExecutedMsg'.from])]_vars

\* C22: whether a Signature message is accepted depends on the message and
\* the configuration only, not on the signature lists, and executing the
\* message a second time leaves the signature lists as the first execution
\* left them.
C22_SignatureExecuteIdempotent ==
    genesis_done =>
        \A msg \in {m \in InjectedSignatures : m.validator \in Validators} :
            LET once == MsgAnchoringSignatureExecute(Store, msg)
                blank == [Store EXCEPT !.signatures = EmptyMap]
            IN  /\ (once.signatures # signatures)
                      = (MsgAnchoringSignatureExecute(blank, msg).signatures # EmptyMap)
                /\ MsgAnchoringSignatureExecute(once, msg).signatures = once.signatures

\* The first anchor: it spends the funding output, anchors block 0 and carries
\* the signatures of majority_count validators.
IsAnchor1(tx) ==
    /\ tx.payload = <<0, BlockHash(0)>>
    /\ tx.input[1] = TxId(FundingTx)
    /\ Len(tx.script_sig) = majority_count

EveryListHoldsAnchor1 ==
    \A v \in Validators :
        /\ Len(lects[v]) = 2
        /\ lects[v][1] = FundingTx
        /\ IsAnchor1(lects[v][2])
        /\ lects[v][2] = lects[0][2]

MadeCall(name) == \E i \in 1 .. Len(last.calls) : last.calls[i] = name

EnqueuedMessages == {last.queue[i] : i \in 1 .. Len(last.queue)}

\* The transaction without its witness: the proposal it was finalized from.
Unsigned(tx) == [tx EXCEPT !.script_sig = <<>>]

\* C24: a node holds at most one local proposal; it goes from None to
\* Some(P) only in a run of the commit handler that signs P and enqueues the
\* node's Signature for P, from Some(P) to None only in a run that finalizes
\* P or finds P's anchoring height different from the one of the current
\* height, and never from Some(P) directly to another Some(P').
C24_ProposalLifecycle ==
    [][\A v \in Validators :
        /\ Len(proposal_tx'[v]) <= 1
        /\ proposal_tx'[v] # proposal_tx[v] =>
            /\ last'.op = "handle_commit"
            /\ IF proposal_tx[v] = <<>>
               THEN /\ MadeCall("sign")'
                    /\ \E msg \in EnqueuedMessages' :
                          /\ msg.type = "Signature"
                          /\ msg.validator = v
                          /\ msg.tx = proposal_tx'[v][1]
               ELSE /\ proposal_tx'[v] = <<>>
                    /\ \/ /\ MadeCall("finalize")'
                          /\ \E msg \in EnqueuedMessages' :
                                /\ msg.type = "UpdateLatest"
                                /\ Unsigned(msg.tx) = proposal_tx[v][1]
                       \/ nearest_anchoring_height(height)
                            # nearest_anchoring_height(PayloadHeight(proposal_tx[v][1]))]_vars

\* Node 0 has finalized one proposal and holds the next one.
C24_Witness ==
    /\ proposal_tx[0] # <<>>
    /\ PayloadHeight(proposal_tx[0][1]) = 2
    /\ sent # {}

\* The calls a run of the commit handler makes to build and sign a proposal.
ProposalCalls ==
    {"list_unspent", "list_unspent: confirmed", "list_unspent: unconfirmed",
     "list_unspent: absent", "proposal", "make_anchoring_tx", "sign"}

\* C25: a run of the commit handler of a node without a local proposal whose
\* check_lect answers Different leaves the proposal None, enqueues no
\* Signature and makes no call that builds or signs a proposal.
C25_DivergentNodeProposesNothing ==
    [][(/\ last'.op = "handle_commit"
        /\ proposal_tx[0] = <<>>
        /\ check_lect(Store, 0).kind = "Different")
       => /\ proposal_tx'[0] = <<>>
          /\ \A msg \in EnqueuedMessages' : msg.type # "Signature"
          /\ \A name \in ProposalCalls : ~MadeCall(name)']_vars

\* The commit handler of node 0 has just run without a proposal while the
\* node's LECT was shared by too few validators.
C25_Witness ==
    /\ last.op = "handle_commit"
    /\ MadeCall("find_lect")
    /\ proposal_tx[0] = <<>>
    /\ panicked = <<>>
    /\ check_lect(Store, 0).kind = "Different"

C27_ProposalPayloadIsNearestAnchoringHeight ==
    [][(last'.op = "handle_commit" /\ proposal_tx[0] = <<>> /\ proposal_tx'[0] # <<>>)
       => LET a == PayloadHeight(proposal_tx'[0][1])
          IN  /\ a % AnchoringFrequency = 0
              /\ a <= height
              /\ height - a < AnchoringFrequency
              /\ PayloadHash(proposal_tx'[0][1]) = BlockHash(a)]_vars

\* A proposal created at height 3, after the height the proposal anchors.
C27_Witness ==
    /\ last.op = "handle_commit"
    /\ MadeCall("sign")
    /\ height = 4
    /\ proposal_tx[0] # <<>>
    /\ PayloadHeight(proposal_tx[0][1]) = 2

\* C28: a run of the commit handler at a height whose nearest anchoring
\* height differs from the anchoring height of the local proposal discards
\* the proposal and stops, however many signatures signatures(txid) holds:
\* no finalize, no get_raw_transaction, no send_raw_transaction, nothing
\* sent to Bitcoin, and no UpdateLatest of a finalized transaction.  The one
\* call of the run is the find_lect of update_our_lect, and the one message
\* it may enqueue is the UpdateLatest for what find_lect found.
C28_StaleProposalDiscarded ==
    [][(/\ last'.op = "handle_commit"
        /\ panicked' = <<>>
        /\ proposal_tx[0] # <<>>
        /\ nearest_anchoring_height(height)
              # nearest_anchoring_height(PayloadHeight(proposal_tx[0][1])))
       => /\ proposal_tx'[0] = <<>>
          /\ ~MadeCall("finalize")'
          /\ ~MadeCall("get_raw_transaction")'
          /\ ~MadeCall("send_raw_transaction")'
          /\ last'.calls = <<"find_lect">>
          /\ sent' = sent
          /\ Len(last'.queue) <= 1
          /\ \A msg \in EnqueuedMessages' :
                /\ msg.type = "UpdateLatest"
                /\ <<msg.tx>> # lect(Store, 0)]_vars

\* The proposal for height 0 was discarded at height 2 although its list
\* held the signatures of three validators: it was never finalized (no
\* UpdateLatest of node 0 is pending or committed), and it is gone.
C28_Witness ==
    /\ last.op = "handle_commit"
    /\ last.calls = <<"find_lect">>
    /\ height = 3
    /\ proposal_tx[0] = <<>>
    /\ sent = {}
    /\ lects[0] = <<FundingTx>>
    /\ \A msg \in mempool : msg.type # "UpdateLatest"
    /\ \E txid \in DOMAIN signatures :
          /\ Cardinality({signatures[txid][i].validator :
                            i \in 1 .. Len(signatures[txid])}) >= majority_count
          /\ signatures[txid][1].tx.payload = <<0, BlockHash(0)>>

\* The signature of the first message of validator v in the list.
FirstSignatureOf(msgs, v) ==
    msgs[CHOOSE i \in 1 .. Len(msgs) :
            /\ msgs[i].validator = v
            /\ \A j \in 1 .. (i - 1) : msgs[j].validator # v].signature

\* C29: when signatures(txid) holds several messages of one validator, the
\* witness a finalizing run assembles uses, for every validator it includes,
\* the signature of that validator's first message in the list.
C29_FirstSignaturePerValidatorWins ==
    [][FinalizedStep =>
        \A i \in 1 .. Len(FinalizedWitness) :
            FinalizedWitness[i]
                = FirstSignatureOf(ProposalSignatures, FinalizedWitness[i].key)]_vars

\* The transaction a finalizing run of the commit handler of node 0 built:
\* the local proposal with the witness of the UpdateLatest enqueued last.
FinalizedTx == Finalize(proposal_tx[0][1], FinalizedWitness)

FreshRun == [proposal |-> proposal_tx[0], queue |-> <<>>, calls |-> <<>>,
             sent |-> <<>>, panic |-> <<>>]

\* The answers of a find_lect call that does not fail: nothing, the funding
\* transaction, the first anchor, or a transaction the node has sent.
FindLectAnswers ==
    {[fail |-> "none", find_lect |-> found, funding |-> "none", get_info |-> FALSE] :
        found \in {<<>>} \cup {<<tx>> : tx \in {FundingTx, Lect0} \cup sent}}

FinalizeCalls == {"finalize", "get_raw_transaction", "send_raw_transaction"}

\* The LECT refresh of the run that the last step was did not fail.
RefreshDone == panicked # <<"Unable to update lect">>

\* C32: a run of the commit handler starts with the LECT refresh and then
\* takes exactly one of two steps.  When a local proposal existed at the
\* start it takes the finalize step and not the creation step: it builds and
\* signs nothing, and it does finalize whenever the list of the proposal has
\* reached the threshold within the proposal's anchoring interval.  When
\* none existed it takes the creation step and not the finalize step: on an
\* agreed tip older than the nearest anchoring height it asks for the
\* funding output, and a proposal it signs is still the local proposal when
\* the run ends, neither finalized nor discarded.
C32_FinalizeOrCreateNeverBoth ==
    [][last'.op = "handle_commit" =>
        /\ last'.calls # <<>>
        /\ last'.calls[1] = "find_lect"
        /\ ~(/\ \E name \in FinalizeCalls : MadeCall(name)'
             /\ \E name \in ProposalCalls : MadeCall(name)')
        /\ proposal_tx[0] # <<>> =>
              /\ \A name \in ProposalCalls : ~MadeCall(name)'
              /\ \A msg \in EnqueuedMessages' : msg.type # "Signature"
              /\ proposal_tx'[0] \in {<<>>, proposal_tx[0]}
              /\ (/\ RefreshDone'
                  /\ Len(ProposalSignatures) >= majority_count
                  /\ \A i \in 1 .. Len(ProposalSignatures) :
                        ProposalSignatures[i].validator \in Validators
                  /\ nearest_anchoring_height(height)
                        = nearest_anchoring_height(PayloadHeight(proposal_tx[0][1])))
                 => MadeCall("finalize")'
        /\ proposal_tx[0] = <<>> =>
              /\ \A name \in FinalizeCalls : ~MadeCall(name)'
              /\ sent' = sent
              /\ (/\ RefreshDone'
                  /\ check_lect(Store, 0).kind = "Some"
                  /\ nearest_anchoring_height(height)
                        > AnchoredHeight(check_lect(Store, 0).tx[1]))
                 => \E name \in ProposalCalls : MadeCall(name)'
              /\ (MadeCall("sign")' /\ panicked' = <<>>) => proposal_tx'[0] # <<>>]_vars

\* Node 0 has run the commit handler three times: the first run created a
\* proposal, the second finalized it and created nothing, the third created
\* the next proposal.
C32_Witness ==
    /\ last.op = "handle_commit"
    /\ height = 3
    /\ MadeCall("sign")
    /\ sent # {}
    /\ proposal_tx[0] # <<>>
    /\ PayloadHeight(proposal_tx[0][1]) = 2
    /\ \E msg \in mempool : msg.type = "UpdateLatest" /\ msg.tx \in sent

\* What executing msg on the store st yields on any replica: the store after
\* the execute method of the message's type (schema.rs).
ReplicaExecute(st, msg) ==
    IF msg.type = "Signature" THEN MsgAnchoringSignatureExecute(st, msg)
    ELSE MsgAnchoringUpdateLatestExecute(st, msg)

C35_LectListsNeverEmptyAfterGenesis ==
    [][/\ genesis_done' =>
            \A v \in Validators :
                /\ lects'[v] # <<>>
                /\ lects'[v][1] = FundingTx
                /\ check_lect(Store', v).kind # "None"
       /\ last'.op = "handle_commit" =>
            /\ ~MadeCall("make_anchoring_tx")'
            /\ panicked' # <<"Funding transaction is not suitable.">>
            /\ (proposal_tx[0] = <<>> /\ proposal_tx'[0] # <<>>
                /\ lect(Store, 0) = <<FundingTx>>) =>
                    /\ check_lect(Store, 0) = [kind |-> "Some", tx |-> <<FundingTx>>]
                    /\ MadeCall("proposal")'
                    /\ proposal_tx'[0][1].input[1] = TxId(FundingTx)]_vars

\* The first anchor proposed from the agreed funding transaction, every list
\* still holding the genesis entry alone.
C35_Witness ==
    /\ last.op = "handle_commit"
    /\ \A v \in Validators : lects[v] = <<FundingTx>>
    /\ MadeCall("proposal")
    /\ proposal_tx[0] # <<>>
    /\ proposal_tx[0][1].input[1] = TxId(FundingTx)
    /\ proposal_tx[0][1].payload = actual_payload(0)

C38_FailedFinalizeIsRetried ==
    [][(/\ last'.op = "handle_commit"
        /\ MadeCall("finalize")'
        /\ proposal_tx'[0] # <<>>)
       => /\ proposal_tx'[0] = proposal_tx[0]
          /\ sent' = sent
          /\ Len(last'.queue) <= 1
          /\ panicked' = <<>>]_vars

\* Anchoring heights whose interval ends within the heights that are followed.
ClearableHeights ==
    {H \in 0 .. MaxOwnHeight :
        H % AnchoringFrequency = 0 /\ H + AnchoringFrequency <= MaxOwnHeight}

HoldsProposalFor(H) ==
    /\ panicked = <<>>
    /\ proposal_tx[0] # <<>>
    /\ PayloadHeight(proposal_tx[0][1]) = H

\* C39: as blocks keep being committed, a local proposal with payload height
\* H does not stay forever: it is cleared (finalized or discarded) at the
\* latest by the first run of the commit handler at a height of another
\* anchoring interval, however few signatures arrived; a proposal a running
\* node holds is always one of the interval of the last handled height.
C39_ProposalEventuallyCleared ==
    /\ \A H \in ClearableHeights :
          HoldsProposalFor(H) ~> (proposal_tx[0] = <<>> \/ panicked # <<>>)
    /\ [](\A H \in 0 .. MaxOwnHeight :
            HoldsProposalFor(H) => /\ height > 0
                                   /\ H = nearest_anchoring_height(height - 1))
    /\ [][(/\ last'.op = "handle_commit"
           /\ panicked' = <<>>
           /\ proposal_tx[0] # <<>>
           /\ nearest_anchoring_height(height)
                # nearest_anchoring_height(PayloadHeight(proposal_tx[0][1])))
          => proposal_tx'[0] = <<>>]_vars

\* A proposal for height 0 that gathered fewer signatures than the threshold
\* and was discarded by the commit handler of height 2.
C39_Witness ==
    /\ last.op = "handle_commit"
    /\ height = 3
    /\ panicked = <<>>
    /\ proposal_tx[0] = <<>>
    /\ sent = {}
    /\ \E tx \in {Anchor0} :
          /\ Len(SignaturesOf(signatures, TxId(tx))) = 1
          /\ SignaturesOf(signatures, TxId(tx))[1].validator = 0

\* C37: a run of the commit handler never creates a proposal (and so never
\* enqueues a Signature) for an anchoring height for which the node has
\* already finalized and broadcast an anchor, in particular not while its own
\* UpdateLatest is still waiting to be committed.
C37_NoSecondProposalForFinalizedHeight ==
    [][(/\ last'.op = "handle_commit"
        /\ proposal_tx[0] = <<>>
        /\ proposal_tx'[0] # <<>>)
       => \A tx \in sent : PayloadHeight(tx) # PayloadHeight(proposal_tx'[0][1])]_vars

\* C40: the honest validators that create a proposal in the commit handlers
\* of the same height from the same agreed tip create the same proposal
\* (inputs, payload and txid), whatever the Bitcoin node of each reports about
\* the funding output.
C40_SameProposalAtSameHeight ==
    [][last'.op = "handle_commit" =>
        \A v, w \in Validators :
            (/\ proposal_tx[v] = <<>> /\ proposal_tx'[v] # <<>>
             /\ proposal_tx[w] = <<>> /\ proposal_tx'[w] # <<>>
             /\ check_lect(Store, v) = check_lect(Store, w))
            => /\ proposal_tx'[v] = proposal_tx'[w]
               /\ TxId(proposal_tx'[v][1]) = TxId(proposal_tx'[w][1])]_vars

====
